---- MODULE Spec2Model ----
(***************************************************************************)
(* Model of pogo's feed regeneration pipeline (generate_rss.go) and of its *)
(* router: the routes, Handle, and the handlers that serve the feed files  *)
(* and write the configuration file.                                       *)
(*                                                                         *)
(* Strings are sequences of fragments.  File names are spelled character   *)
(* by character, because the extractor splits, searches and rewrites them; *)
(* configuration values that are only copied are single fragments.         *)
(***************************************************************************)
EXTENDS Integers, Sequences, FiniteSets, TLC

(***************************************************************************)
(* Bounds of the model.                                                    *)
(***************************************************************************)
\* number of happenings from outside in one behaviour: mutations of the
\* watched paths, and errors the watcher reports
MaxMutations == 2
\* largest value the wall clock read by time.Now() takes
MaxClock == 1
\* number of failed opens and writes of the output files in one behaviour
MaxIoFaults == 1
\* number of requests that reach a route of the router in one behaviour
MaxRequests == 2

(***************************************************************************)
(* strings: the standard-library functions the extractor calls             *)
(***************************************************************************)
\* byte order of the characters that occur in file names (ASCII order)
CharOrder ==
  << "-", ".", "0", "1", "2", "3", "4", "5", "6", "7", "8", "9",
     "B", "D", "E", "H", "M", "N", "O", "P", "S", "T", "W", "_",
     "a", "b", "d", "e", "h", "i", "k", "l", "m", "o", "p", "t", "w", "x", "y" >>

Rank(c) == CHOOSE i \in 1..Len(CharOrder) : CharOrder[i] = c

RECURSIVE StrLess(_, _)
\* a < b in byte-wise lexicographic order
StrLess(a, b) ==
  IF b = << >> THEN FALSE
  ELSE IF a = << >> THEN TRUE
  ELSE IF Head(a) = Head(b) THEN StrLess(Tail(a), Tail(b))
  ELSE Rank(Head(a)) < Rank(Head(b))

\* position of the first occurrence of sub in s, 0 when there is none
Index(s, sub) ==
  LET hits == { i \in 1..(Len(s) - Len(sub) + 1) : SubSeq(s, i, i + Len(sub) - 1) = sub }
  IN  IF hits = {} THEN 0 ELSE CHOOSE i \in hits : \A j \in hits : i <= j

\* strings.Contains
Contains(s, sub) == Index(s, sub) # 0

\* strings.HasSuffix
HasSuffix(s, suf) ==
  Len(s) >= Len(suf) /\ SubSeq(s, Len(s) - Len(suf) + 1, Len(s)) = suf

RECURSIVE Split(_, _)
\* strings.Split with a non-empty separator: every piece between separators
Split(s, sep) ==
  LET i == Index(s, sep)
  IN  IF i = 0 THEN << s >>
      ELSE << SubSeq(s, 1, i - 1) >> \o Split(SubSeq(s, i + Len(sep), Len(s)), sep)

RECURSIVE Replace(_, _, _, _)
\* strings.Replace: the first n non-overlapping occurrences of old become new
Replace(s, old, new, n) ==
  LET i == Index(s, old)
  IN  IF n = 0 \/ i = 0 THEN s
      ELSE SubSeq(s, 1, i - 1) \o new
             \o Replace(SubSeq(s, i + Len(old), Len(s)), old, new, n - 1)

Digits == << "0", "1", "2", "3", "4", "5", "6", "7", "8", "9" >>

IsDigit(c) == \E i \in 1..10 : Digits[i] = c

DigitVal(c) == (CHOOSE i \in 1..10 : Digits[i] = c) - 1

RECURSIVE Itoa(_)
\* fmt.Sprintf("%d", n) for n >= 0
Itoa(n) == IF n < 10 THEN << Digits[n + 1] >> ELSE Itoa(n \div 10) \o << Digits[(n % 10) + 1] >>

(***************************************************************************)
(* time.Parse("2006-01-02", s)                                             *)
(***************************************************************************)
IsLeap(y) == (y % 4 = 0 /\ y % 100 # 0) \/ y % 400 = 0

DaysIn(m, y) ==
  IF m = 2 THEN (IF IsLeap(y) THEN 29 ELSE 28)
  ELSE IF m \in {4, 6, 9, 11} THEN 30 ELSE 31

NoDate == [y |-> 0, m |-> 0, d |-> 0]

\* [err, date]: four digits, "-", two digits, "-", two digits, nothing else,
\* and the month and the day in range
ParseDate(s) ==
  IF ~ ( /\ Len(s) = 10
         /\ \A i \in {1, 2, 3, 4, 6, 7, 9, 10} : IsDigit(s[i])
         /\ s[5] = "-" /\ s[8] = "-" )
  THEN [err |-> TRUE, date |-> NoDate]
  ELSE LET y == DigitVal(s[1]) * 1000 + DigitVal(s[2]) * 100
                  + DigitVal(s[3]) * 10 + DigitVal(s[4])
           m == DigitVal(s[6]) * 10 + DigitVal(s[7])
           d == DigitVal(s[9]) * 10 + DigitVal(s[10])
       IN  IF m \in 1..12 /\ d >= 1 /\ d <= DaysIn(m, y)
           THEN [err |-> FALSE, date |-> [y |-> y, m |-> m, d |-> d]]
           ELSE [err |-> TRUE, date |-> NoDate]

(***************************************************************************)
(* The watched paths: the podcasts/ directory and the configuration file   *)
(***************************************************************************)
Mp3 == << ".", "m", "p", "3" >>

Shownotes == << "_", "S", "H", "O", "W", "N", "O", "T", "E", "S", ".", "m", "d" >>

\* "2024-01-15"
DateOk == << "2", "0", "2", "4", "-", "0", "1", "-", "1", "5" >>

\* "2024-02-30": the shape of a date, and no day of the calendar
DateBad == << "2", "0", "2", "4", "-", "0", "2", "-", "3", "0" >>

\* "2024-01-15_Pilot.mp3" and its shownotes
NPilot == DateOk \o << "_", "P", "i", "l", "o", "t" >> \o Mp3

NPilotNotes == DateOk \o << "_", "P", "i", "l", "o", "t" >> \o Shownotes

\* "2024-01-15_My_Show.mp3" and its shownotes
NMyShow == DateOk \o << "_", "M", "y", "_", "S", "h", "o", "w" >> \o Mp3

NMyShowNotes == DateOk \o << "_", "M", "y", "_", "S", "h", "o", "w" >> \o Shownotes

\* "2024-01-15_x.mp3.bak" and the file the extractor reads as its shownotes
NBak == DateOk \o << "_", "x" >> \o Mp3 \o << ".", "b", "a", "k" >>

NBakNotes == DateOk \o << "_", "x" >> \o Shownotes \o << ".", "b", "a", "k" >>

\* "x.mp3.bak"
NPlainBak == << "x" >> \o Mp3 \o << ".", "b", "a", "k" >>

\* "2024-02-30_Bad.mp3" and its shownotes
NBadDate == DateBad \o << "_", "B", "a", "d" >> \o Mp3

NBadDateNotes == DateBad \o << "_", "B", "a", "d" >> \o Shownotes

\* the names a file of podcasts/ may take
FileNames ==
  { NPilot, NPilotNotes, NMyShow, NMyShowNotes, NBak, NBakNotes,
    NPlainBak, NBadDate, NBadDateNotes }

\* file contents, as byte sequences
Contents == { << "W" >>, << "W", "e" >> }

\* the fields of Config
ConfigFields == { "Name", "Host", "Email", "Description", "Image", "PodcastUrl" }

\* the zero value of a Config field
ZeroValue(f) == IF f = "PodcastUrl" THEN << >> ELSE ""

\* the states of assets/config/config.json: missing, bytes that are no JSON
\* object of strings, or a JSON object (a function from its keys)
CfgAbsent == [kind |-> "absent", obj |-> << >>]

CfgGarbage == [kind |-> "garbage", obj |-> << >>]

CfgShow ==
  [kind |-> "object",
   obj |-> [Name |-> "Show", Host |-> "Alice", Email |-> "a@x.com",
            Description |-> "About", Image |-> "https://x.com/i.png",
            PodcastUrl |-> << "https://x.com" >>]]

\* what serveSetup writes: three form values, the other fields empty, and
\* the base URL under the key PodcastURL
CfgSetup ==
  [kind |-> "object",
   obj |-> [Name |-> "Show", Host |-> "Alice", Email |-> "a@x.com",
            Description |-> "", Image |-> "", PodcastURL |-> << >>]]

\* a JSON object that names three of the six fields
CfgPartial ==
  [kind |-> "object",
   obj |-> [Name |-> "Show", Host |-> "Alice", Email |-> "a@x.com"]]

ConfigWrites == { CfgShow, CfgSetup, CfgPartial, CfgGarbage }

\* encoding/json matches an object key to a field name ignoring case
FoldKey(k) == IF k = "PodcastURL" THEN "PodcastUrl" ELSE k

\* json.Unmarshal(d, &config): an error for bytes that do not decode, and
\* otherwise every field the object names, the others left at zero
Unmarshal(d) ==
  IF d.kind # "object" THEN [err |-> TRUE, config |-> [f \in ConfigFields |-> ZeroValue(f)]]
  ELSE [err |-> FALSE,
        config |-> [f \in ConfigFields |->
                      LET ks == { k \in DOMAIN d.obj : FoldKey(k) = f }
                      IN  IF ks = {} THEN ZeroValue(f) ELSE d.obj[CHOOSE k \in ks : TRUE]]]

RECURSIVE SortNames(_)
\* the names of a set in increasing byte order
SortNames(S) ==
  IF S = {} THEN << >>
  ELSE LET least == CHOOSE n \in S : \A o \in S \ {n} : StrLess(n, o)
       IN  << least >> \o SortNames(S \ {least})

\* ioutil.ReadDir: one entry per file, sorted by file name, with its size
ReadDir(dir) ==
  LET names == SortNames(DOMAIN dir)
  IN  [i \in 1..Len(names) |-> [name |-> names[i], size |-> Len(dir[names[i]])]]

(***************************************************************************)
(* State                                                                   *)
(***************************************************************************)
VARIABLES
  podcasts,    \* podcasts/: file name -> content, for the files that exist
  configFile,  \* assets/config/config.json
  rssFile,     \* assets/web/feed.rss: the elements on disk
  jsonFile,    \* assets/web/feed.json: the elements on disk
  proc,        \* "running", or "exited" (log.Fatal, or a panic nobody recovers)
  setup,       \* where watch() stands: "NewWatcher", "go", "AddPodcasts", "AddConfig",
               \* "blocked" (on done), or "failed" (a set-up call returned an error)
  watched,     \* the paths added to the watcher
  events,      \* watcher.Events: the events not yet received, oldest first
  loop,        \* the goroutine of watch(): "none", "select", or "call" (inside GenerateRss)
  rb,          \* the invocations of GenerateRss so far, in the order they started
  lastNow,     \* the latest value time.Now() returned
  ioFaults,    \* failed opens and writes of the output files so far
  consumed,    \* history: the events the goroutine received, in order
  nmut,        \* history: number of mutations of the watched paths so far
  quietMut,    \* history: nmut after the latest mutation that queued no Write event
  missed,      \* history: a mutation was made to a path not yet watched
  errors,      \* watcher.Errors: the number of errors not yet received
  errLog,      \* the number of "error:" lines the goroutine has logged
  reqs         \* the requests that reached a route of the router, in order of arrival

vars ==
  << podcasts, configFile, rssFile, jsonFile, proc, setup, watched, events, loop,
     rb, lastNow, ioFaults, consumed, nmut, quietMut, missed, errors, errLog, reqs >>

fsVars == << podcasts, configFile >>

outVars == << rssFile, jsonFile >>

histVars == << consumed, nmut, quietMut, missed >>

errVars == << errors, errLog >>

(***************************************************************************)
(* GenerateRss: the feed and its items                                     *)
(***************************************************************************)
\* lines 86-94 with the feed kept across invocations: the items of the
\* invocation before are still in it
NewFeedKeepsItems(config, now) ==
  [Title |-> config.Name,
   Link |-> [Href |-> config.PodcastUrl],
   Description |-> config.Description,
   Author |-> [Name |-> config.Host, Email |-> config.Email],
   Created |-> now,
   Image |-> [Url |-> config.Image],
   Items |-> IF Len(rb) > 1 THEN rb[Len(rb) - 1].feed.Items ELSE << >>]

\* lines 86-94
NewFeed(config, now) ==
  [Title |-> config.Name,
   Link |-> [Href |-> config.PodcastUrl],
   Description |-> config.Description,
   Author |-> [Name |-> config.Host, Email |-> config.Email],
   Created |-> now,
   Image |-> [Url |-> config.Image],
   Items |-> << >>]

\* line 97: the entries the loop body handles
IsAudio(name) == Contains(name, Mp3)

\* line 101: the path read as the entry's shownotes
ShownotesName(name) == Replace(name, Mp3, Shownotes, 2)

\* lines 109-119: the item of an entry
NewItem(config, entry, title, description, date) ==
  LET size == Itoa(entry.size)
      link == config.PodcastUrl \o << "/download/" >> \o entry.name
  IN  [Title |-> title,
       Link |-> [Href |-> link, Length |-> size, Type |-> "audio/mpeg"],
       Enclosure |-> [Url |-> link, Length |-> size, Type |-> "audio/mpeg"],
       Description |-> description,
       Author |-> [Name |-> config.Host, Email |-> config.Email],
       Created |-> date]

NoItem == [Title |-> << >>]

\* line 111 with the new item put in front of those added before
FeedAddFront(items, item) == << item >> \o items

\* line 111, feed.Add: the item goes after those added before

FeedAdd(items, item) == Append(items, item)

\* lines 97-121, one iteration of the loop over the listing, against the
\* directory as it is when the shownotes are read: the entry is skipped, the
\* goroutine panics (s[1] out of range), the process exits (log.Fatal), or an
\* item is added
ExtractEntry(config, entry, dir) ==
  IF ~ IsAudio(entry.name) THEN [kind |-> "skip", site |-> "", item |-> NoItem]
  ELSE LET s == Split(entry.name, << "_" >>)
       IN  IF Len(s) < 2 THEN [kind |-> "panic", site |-> "index", item |-> NoItem]
           ELSE LET t == Split(s[2], << "." >>)
                    title == t[1]
                    notes == ShownotesName(entry.name)
                    parsed == ParseDate(s[1])
                IN  IF notes \notin DOMAIN dir
                    THEN [kind |-> "fatal", site |-> "shownotes", item |-> NoItem]
                    ELSE IF parsed.err
                    THEN [kind |-> "fatal", site |-> "date", item |-> NoItem]
                    ELSE [kind |-> "item", site |-> "",
                          item |-> NewItem(config, entry, title, dir[notes], parsed.date)]

(***************************************************************************)
(* feeds: the two encodings, as sequences of elements.  A document opens   *)
(* with its feed-level element, holds one element per item, and ends with  *)
(* its closing element.                                                    *)
(***************************************************************************)
RssItem(i) ==
  [tag |-> "item", title |-> i.Title, link |-> i.Link.Href,
   description |-> i.Description, author |-> i.Author.Name,
   enclosure |-> [url |-> i.Enclosure.Url, length |-> i.Enclosure.Length,
                  type |-> i.Enclosure.Type],
   pubDate |-> [layout |-> "RFC1123Z", t |-> i.Created]]

\* feed.ToRss()
ToRss(feed) ==
  << [tag |-> "channel", title |-> feed.Title, link |-> feed.Link.Href,
      description |-> feed.Description,
      managingEditor |-> << feed.Author.Email, " (", feed.Author.Name, ")" >>,
      pubDate |-> [layout |-> "RFC1123Z", t |-> feed.Created],
      image |-> feed.Image.Url] >>
  \o [n \in 1..Len(feed.Items) |-> RssItem(feed.Items[n])]
  \o << [tag |-> "/rss"] >>

JsonItem(i) ==
  [tag |-> "item", Title |-> i.Title, Link |-> i.Link, Enclosure |-> i.Enclosure,
   Description |-> i.Description, Author |-> i.Author,
   Created |-> [layout |-> "RFC3339", t |-> i.Created]]

\* feed.ToJSON()
ToJSON(feed) ==
  << [tag |-> "{", Title |-> feed.Title, Link |-> feed.Link,
      Description |-> feed.Description, Author |-> feed.Author,
      Created |-> [layout |-> "RFC3339", t |-> feed.Created],
      Image |-> feed.Image] >>
  \o [n \in 1..Len(feed.Items) |-> JsonItem(feed.Items[n])]
  \o << [tag |-> "}"] >>

(***************************************************************************)
(* The initial state                                                       *)
(***************************************************************************)
\* the directory the process starts with: one published episode, and the
\* shownotes of an episode whose audio file is still to come
InitPodcasts ==
  [n \in { NPilot, NPilotNotes, NMyShowNotes } |-> << "W" >>]

\* the feed a completed rebuild builds from a configuration file and a
\* directory at time now
FeedOf(cfg, dir, now) ==
  LET config == Unmarshal(cfg).config
      files == ReadDir(dir)
      F[i \in 0..Len(files)] ==
        IF i = 0 THEN << >>
        ELSE LET r == ExtractEntry(config, files[i], dir)
             IN  IF r.kind = "item" THEN FeedAdd(F[i - 1], r.item) ELSE F[i - 1]
  IN  [NewFeed(config, now) EXCEPT !.Items = F[Len(files)]]

Init ==
  /\ rb = << >>
  /\ podcasts = InitPodcasts
  /\ configFile = CfgShow
  /\ rssFile = ToRss(FeedOf(CfgShow, InitPodcasts, 0))
  /\ jsonFile = ToJSON(FeedOf(CfgShow, InitPodcasts, 0))
  /\ proc = "running"
  /\ setup = "NewWatcher"
  /\ watched = {}
  /\ events = << >>
  /\ loop = "none"
  /\ lastNow = 0
  /\ ioFaults = 0
  /\ consumed = << >>
  /\ nmut = 0
  /\ quietMut = 0
  /\ missed = FALSE
  /\ errors = 0
  /\ errLog = 0
  /\ reqs = << >>

(***************************************************************************)
(* The outside world: files dropped into, rewritten in and removed from    *)
(* podcasts/, and the configuration file rewritten or removed.  A watched  *)
(* path reports what happened to it as events.                             *)
(***************************************************************************)
Running == proc = "running"

\* the name the events of the configuration file carry
ConfigName == << "assets/config/config.json" >>

Event(op, path) == [op |-> {op}, path |-> path]

\* the events a mutation queues: those of a path the watcher was added to
Notify(path, evs) == IF path \in watched THEN events \o evs ELSE events

Mutate(path, evs) ==
  /\ Running
  /\ nmut + errors + errLog < MaxMutations
  /\ nmut' = nmut + 1
  /\ events' = Notify(path, evs)
  /\ quietMut' = IF \E i \in 1..Len(evs) : "Write" \in evs[i].op /\ path \in watched
                 THEN quietMut ELSE nmut + 1
  /\ missed' = (missed \/ path \notin watched)
  /\ UNCHANGED << errVars, reqs, outVars, proc, setup, watched, loop, rb, lastNow, ioFaults,
                  consumed >>

\* a new file is created and its first bytes are written
FsCreate(name) ==
  /\ name \notin DOMAIN podcasts
  /\ podcasts' = [n \in DOMAIN podcasts \cup {name} |->
                   IF n = name THEN << "W" >> ELSE podcasts[n]]
  /\ Mutate("podcasts", << Event("Create", name), Event("Write", name) >>)
  /\ UNCHANGED configFile

\* the content of a file is replaced
FsWrite(name, c) ==
  /\ name \in DOMAIN podcasts
  /\ podcasts[name] # c
  /\ podcasts' = [podcasts EXCEPT ![name] = c]
  /\ Mutate("podcasts", << Event("Write", name) >>)
  /\ UNCHANGED configFile

FsRemove(name) ==
  /\ name \in DOMAIN podcasts
  /\ podcasts' = [n \in DOMAIN podcasts \ {name} |-> podcasts[n]]
  /\ Mutate("podcasts", << Event("Remove", name) >>)
  /\ UNCHANGED configFile

\* a file written elsewhere is moved into the directory: the watcher reports
\* its creation and no write
FsMoveIn(name) ==
  /\ name \notin DOMAIN podcasts
  /\ podcasts' = [n \in DOMAIN podcasts \cup {name} |->
                   IF n = name THEN << "W" >> ELSE podcasts[n]]
  /\ Mutate("podcasts", << Event("Create", name) >>)
  /\ UNCHANGED configFile

\* a file is moved out of the directory
FsMoveOut(name) ==
  /\ name \in DOMAIN podcasts
  /\ podcasts' = [n \in DOMAIN podcasts \ {name} |-> podcasts[n]]
  /\ Mutate("podcasts", << Event("Rename", name) >>)
  /\ UNCHANGED configFile

\* the mode of a file is changed, its content is not
FsChmod(name) ==
  /\ name \in DOMAIN podcasts
  /\ Mutate("podcasts", << Event("Chmod", name) >>)
  /\ UNCHANGED fsVars

ConfigWrite(c) ==
  /\ c # configFile
  /\ configFile' = c
  /\ Mutate("config", << Event("Write", ConfigName) >>)
  /\ UNCHANGED podcasts

ConfigRemove ==
  /\ configFile # CfgAbsent
  /\ configFile' = CfgAbsent
  /\ Mutate("config", << Event("Remove", ConfigName) >>)
  /\ UNCHANGED podcasts

(***************************************************************************)
(* watch(): the set-up, and the goroutine that receives the events         *)
(***************************************************************************)
\* lines 35, 58, 62 as log.Println(err): the error is reported and the
\* process goes on
SetupLogs == "running"

\* lines 35, 58, 62: log.Fatal(err) ends the process

SetupFatal == "exited"

\* lines 33-36: fsnotify.NewWatcher() returns a watcher, or an error and the
\* process exits
NewWatcher ==
  /\ Running /\ setup = "NewWatcher"
  /\ \/ setup' = "go" /\ UNCHANGED proc
     \/ proc' = SetupFatal /\ setup' = "failed"
  /\ UNCHANGED << errVars, reqs, fsVars, outVars, watched, events, loop, rb, lastNow, ioFaults,
                  histVars >>

\* lines 42-54: the goroutine starts, before either path is added
GoLoop ==
  /\ Running /\ setup = "go"
  /\ loop' = "select"
  /\ setup' = "AddPodcasts"
  /\ UNCHANGED << errVars, reqs, fsVars, outVars, proc, watched, events, rb, lastNow, ioFaults,
                  histVars >>

\* lines 56-59: watcher.Add("podcasts/")
AddPodcasts ==
  /\ Running /\ setup = "AddPodcasts"
  /\ \/ watched' = watched \cup {"podcasts"} /\ setup' = "AddConfig" /\ UNCHANGED proc
     \/ proc' = SetupFatal /\ setup' = "failed" /\ UNCHANGED watched
  /\ UNCHANGED << errVars, reqs, fsVars, outVars, events, loop, rb, lastNow, ioFaults,
                  histVars >>

\* lines 60-64: watcher.Add("assets/config/config.json"), which fails when the
\* file does not exist, and then watch() blocks on done for ever
AddConfig ==
  /\ Running /\ setup = "AddConfig"
  /\ \/ /\ configFile # CfgAbsent
        /\ watched' = watched \cup {"config"} /\ setup' = "blocked" /\ UNCHANGED proc
     \/ proc' = SetupFatal /\ setup' = "failed" /\ UNCHANGED watched
  /\ UNCHANGED << errVars, reqs, fsVars, outVars, events, loop, rb, lastNow, ioFaults,
                  histVars >>

ZeroConfig == [f \in ConfigFields |-> ZeroValue(f)]

\* the frame of an invocation of GenerateRss that is about to run line 70
NewFrame(trigger) ==
  [pc |-> "ReadConfig", trigger |-> trigger, startMut |-> nmut, endMut |-> nmut,
   startLog |-> errLog,
   rss0 |-> rssFile, json0 |-> jsonFile, d |-> CfgAbsent,
   config |-> ZeroConfig, now |-> 0, files |-> << >>, idx |-> 1,
   feed |-> NewFeed(ZeroConfig, 0), rss |-> << >>, json |-> << >>,
   rssErr |-> "none", jsonErr |-> "none", site |-> ""]

\* line 47 without the test of the operation: every event starts a rebuild
LoopTriggersAlways(ev) == TRUE

\* line 47 with coalescing: a write event that repeats the event received
\* just before it starts no rebuild
LoopDebounces(ev) ==
  "Write" \in ev.op /\ ~ (consumed # << >> /\ consumed[Len(consumed)] = ev)

\* line 47 with the test widened to new files: a create event starts a
\* rebuild as well
LoopTriggersOnCreate(ev) == ev.op \cap { "Write", "Create" } # {}

\* line 47: the events that start a rebuild

LoopTriggers(ev) == "Write" \in ev.op

\* line 48 as "go GenerateRss()": the goroutine goes back to its select at once
LoopSpawns == "select"

\* line 48: the goroutine calls GenerateRss and is inside the call until it returns

LoopCalls == "call"

\* the watcher fails to read or to decode what the kernel reports (an
\* overflow of its queue, a failed read) and sends the error on watcher.Errors
WatcherError ==
  /\ Running
  /\ setup \notin { "NewWatcher", "failed" }
  /\ nmut + errors + errLog < MaxMutations
  /\ errors' = errors + 1
  /\ UNCHANGED << fsVars, outVars, proc, setup, watched, events, loop, rb, lastNow,
                  ioFaults, histVars, errLog, reqs >>

\* lines 50-51 with the error treated as fatal
ErrorIsFatal == "exited"

\* lines 50-51: log.Println("error:", err), and the loop goes on

ErrorIsLogged == "running"

\* lines 43-44, 50-51: the goroutine receives an error
WatchError ==
  /\ Running /\ loop = "select" /\ errors > 0
  /\ errors' = errors - 1
  /\ errLog' = errLog + 1
  /\ proc' = ErrorIsLogged
  /\ UNCHANGED << fsVars, outVars, setup, watched, events, loop, rb, lastNow,
                  ioFaults, histVars, reqs >>

\* lines 43-49: the goroutine receives the oldest event
WatchEvent ==
  /\ Running /\ loop = "select" /\ events # << >>
  /\ LET ev == Head(events)
     IN  /\ events' = Tail(events)
         /\ consumed' = Append(consumed, ev)
         /\ IF LoopTriggers(ev)
            THEN /\ rb' = Append(rb, NewFrame(Len(consumed) + 1))
                 /\ loop' = LoopCalls
            ELSE UNCHANGED << rb, loop >>
  /\ UNCHANGED << errVars, reqs, fsVars, outVars, proc, setup, watched, lastNow, ioFaults,
                  nmut, quietMut, missed >>

(***************************************************************************)
(* GenerateRss, one step per access to the file system                     *)
(***************************************************************************)
At(k, pc) == Running /\ k \in DOMAIN rb /\ rb[k].pc = pc

\* lines 138, 141 with the output files written into the watched directory
OutputDirWatched == "podcasts"

\* lines 138, 141: the output files are files of assets/web

OutputDir == "web"

\* the event queue after a truncation or a write of an output file
OutputWritten(file) == Notify(OutputDir, << Event("Write", << file >>) >>)

\* panic(err) in the goroutine and log.Fatal(err) both end the process
Fail(k, site) ==
  /\ rb' = [rb EXCEPT ![k].pc = "failed", ![k].site = site, ![k].endMut = nmut]
  /\ proc' = "exited"

\* lines 70-78
ReadConfig(k) ==
  /\ At(k, "ReadConfig")
  /\ IF configFile = CfgAbsent THEN Fail(k, "ConfigUnreadable")
     ELSE IF Unmarshal(configFile).err
     THEN /\ rb' = [rb EXCEPT ![k].pc = "failed", ![k].site = "ConfigMalformed",
                              ![k].endMut = nmut, ![k].d = configFile]
          /\ proc' = "exited"
     ELSE /\ rb' = [rb EXCEPT ![k].pc = "ReadDir", ![k].d = configFile,
                              ![k].config = Unmarshal(configFile).config]
          /\ UNCHANGED proc
  /\ UNCHANGED << errVars, reqs, fsVars, outVars, setup, watched, events, loop, lastNow, ioFaults,
                  histVars >>

\* lines 96-97: the loop passes over the entries that hold no ".mp3"; the
\* position of the next entry it handles, Len(files) + 1 when none is left
RECURSIVE NextAudio(_, _)
NextAudio(files, i) ==
  IF i > Len(files) \/ IsAudio(files[i].name) THEN i ELSE NextAudio(files, i + 1)

\* lines 80-94: the clock is read, the directory is listed, the feed is made
ListDir(k) ==
  /\ At(k, "ReadDir")
  /\ \E now \in lastNow..MaxClock :
       /\ lastNow' = now
       /\ \/ /\ rb' = [rb EXCEPT ![k].pc = "Loop", ![k].now = now,
                                 ![k].files = ReadDir(podcasts),
                                 ![k].idx = NextAudio(ReadDir(podcasts), 1),
                                 ![k].feed = NewFeed(rb[k].config, now)]
             /\ UNCHANGED proc
          \/ Fail(k, "DirectoryUnreadable")
  /\ UNCHANGED << errVars, reqs, fsVars, outVars, setup, watched, events, loop, ioFaults,
                  histVars >>

\* lines 96-122: the next entry that holds ".mp3"
Extract(k) ==
  /\ At(k, "Loop")
  /\ rb[k].idx <= Len(rb[k].files)
  /\ LET r == ExtractEntry(rb[k].config, rb[k].files[rb[k].idx], podcasts)
     IN  IF r.kind = "item"
         THEN /\ rb' = [rb EXCEPT ![k].idx = NextAudio(rb[k].files, @ + 1),
                                  ![k].feed.Items = FeedAdd(@, r.item)]
              /\ UNCHANGED proc
         ELSE Fail(k, r.site)
  /\ UNCHANGED << errVars, reqs, fsVars, outVars, setup, watched, events, loop, lastNow, ioFaults,
                  histVars >>

\* lines 126-138 with the first WriteFile moved ahead of the check of ToJSON's error
EncodeWritesEarly(k) ==
  /\ At(k, "Loop")
  /\ rb[k].idx > Len(rb[k].files)
  /\ \/ /\ rssFile' = << >>
        /\ rb' = [rb EXCEPT ![k].pc = "WriteRss", ![k].rss = ToRss(rb[k].feed),
                            ![k].json = ToJSON(rb[k].feed)]
        /\ UNCHANGED << proc, ioFaults >>
     \/ /\ rssFile' = ToRss(rb[k].feed)
        /\ Fail(k, "EncodingFailed")
        /\ UNCHANGED ioFaults
  /\ UNCHANGED << errVars, reqs, fsVars, jsonFile, setup, watched, events, loop, lastNow,
                  histVars >>

\* lines 126-138, up to ioutil.WriteFile opening feed.rss: ToRss or ToJSON
\* returns an error and the process exits; or both documents are encoded and
\* feed.rss is truncated; or the open fails, the file is left alone and the
\* error is dropped
Encode(k) ==
  /\ At(k, "Loop")
  /\ rb[k].idx > Len(rb[k].files)
  /\ \/ /\ Fail(k, "EncodingFailed")
        /\ UNCHANGED << rssFile, ioFaults, events >>
     \/ /\ rssFile' = << >>
        /\ events' = OutputWritten("feed.rss")
        /\ rb' = [rb EXCEPT ![k].pc = "WriteRss", ![k].rss = ToRss(rb[k].feed),
                            ![k].json = ToJSON(rb[k].feed)]
        /\ UNCHANGED << proc, ioFaults >>
     \/ /\ ioFaults < MaxIoFaults
        /\ ioFaults' = ioFaults + 1
        /\ rb' = [rb EXCEPT ![k].pc = "OpenJson", ![k].rss = ToRss(rb[k].feed),
                            ![k].json = ToJSON(rb[k].feed), ![k].rssErr = "err"]
        /\ UNCHANGED << rssFile, proc, events >>
  /\ UNCHANGED << errVars, reqs, fsVars, jsonFile, setup, watched, loop, lastNow,
                  histVars >>

\* the proper prefixes of a document: what a failed write may leave
ShortWrites(doc) == { SubSeq(doc, 1, n) : n \in 0..(Len(doc) - 1) }

\* line 138, ioutil.WriteFile writing feed.rss: all of the document, or a
\* failed write that leaves part of it and an error that is dropped
WriteRss(k) ==
  /\ At(k, "WriteRss")
  /\ \/ /\ rssFile' = rb[k].rss
        /\ rb' = [rb EXCEPT ![k].pc = "OpenJson", ![k].rssErr = "nil"]
        /\ UNCHANGED ioFaults
     \/ /\ ioFaults < MaxIoFaults
        /\ ioFaults' = ioFaults + 1
        /\ rssFile' \in ShortWrites(rb[k].rss)
        /\ rb' = [rb EXCEPT ![k].pc = "OpenJson", ![k].rssErr = "err"]
  /\ events' = OutputWritten("feed.rss")
  /\ UNCHANGED << errVars, reqs, fsVars, jsonFile, proc, setup, watched, loop, lastNow,
                  histVars >>

\* line 141, ioutil.WriteFile opening feed.json
OpenJson(k) ==
  /\ At(k, "OpenJson")
  /\ \/ /\ jsonFile' = << >>
        /\ events' = OutputWritten("feed.json")
        /\ rb' = [rb EXCEPT ![k].pc = "WriteJson"]
        /\ UNCHANGED << ioFaults, loop >>
     \/ /\ ioFaults < MaxIoFaults
        /\ ioFaults' = ioFaults + 1
        /\ rb' = [rb EXCEPT ![k].pc = "done", ![k].jsonErr = "err", ![k].endMut = nmut]
        /\ loop' = "select"
        /\ UNCHANGED << jsonFile, events >>
  /\ UNCHANGED << errVars, reqs, fsVars, rssFile, proc, setup, watched, lastNow,
                  histVars >>

\* line 141, ioutil.WriteFile writing feed.json, and GenerateRss returns to
\* the goroutine's loop
WriteJson(k) ==
  /\ At(k, "WriteJson")
  /\ \/ /\ jsonFile' = rb[k].json
        /\ rb' = [rb EXCEPT ![k].pc = "done", ![k].jsonErr = "nil", ![k].endMut = nmut]
        /\ UNCHANGED ioFaults
     \/ /\ ioFaults < MaxIoFaults
        /\ ioFaults' = ioFaults + 1
        /\ jsonFile' \in ShortWrites(rb[k].json)
        /\ rb' = [rb EXCEPT ![k].pc = "done", ![k].jsonErr = "err", ![k].endMut = nmut]
  /\ loop' = "select"
  /\ events' = OutputWritten("feed.json")
  /\ UNCHANGED << errVars, reqs, fsVars, rssFile, proc, setup, watched, lastNow,
                  histVars >>

(***************************************************************************)
(* The router: the routes, and Handle running the handlers of a route.     *)
(* rootHandler answers /rss and /json with the bytes of the file, read     *)
(* when the request arrives.                                               *)
(***************************************************************************)
\* lines 54-94: the paths routed to Handle
Paths ==
  { "/", "/rss", "/json", "/admin", "/login", "/admin/publish", "/admin/delete",
    "/admin/css", "/setup" }

\* lines 54-94: the methods a route accepts
Methods(path) ==
  IF path \in { "/", "/rss", "/json", "/admin/delete" } THEN { "GET" }
  ELSE IF path = "/admin/publish" THEN { "POST" }
  ELSE { "GET", "POST" }

\* lines 82-85 with the authorization left out of one route
ChainUnguarded(path) ==
  IF path \in { "/", "/rss", "/json" } THEN << "rootHandler" >>
  ELSE IF path = "/admin" THEN << "RequireAuthorization", "adminHandler" >>
  ELSE IF path = "/login" THEN << "loginHandler" >>
  ELSE IF path = "/admin/publish" THEN << "RequireAuthorization", "CreateEpisode" >>
  ELSE IF path = "/admin/delete" THEN << "RemoveEpisode" >>
  ELSE IF path = "/admin/css" THEN << "RequireAuthorization", "CustomCss" >>
  ELSE << "serveSetup" >>

\* lines 54-94: the handlers of a route, in the order they are given to Handle

Chain(path) ==
  IF path \in { "/", "/rss", "/json" } THEN << "rootHandler" >>
  ELSE IF path = "/admin" THEN << "RequireAuthorization", "adminHandler" >>
  ELSE IF path = "/login" THEN << "loginHandler" >>
  ELSE IF path = "/admin/publish" THEN << "RequireAuthorization", "CreateEpisode" >>
  ELSE IF path = "/admin/delete" THEN << "RequireAuthorization", "RemoveEpisode" >>
  ELSE IF path = "/admin/css" THEN << "RequireAuthorization", "CustomCss" >>
  ELSE << "serveSetup" >>

\* http.StatusText
StatusText(code) ==
  IF code = 400 THEN "Bad Request"
  ELSE IF code = 401 THEN "Unauthorized"
  ELSE IF code = 404 THEN "Not Found"
  ELSE "Internal Server Error"

\* the status codes of the errors a handler returns
ErrorCodes == { 400, 401, 404, 500 }

\* lines 176-185: the file a path is answered with
FeedFile(path) ==
  IF path = "/rss" THEN "assets/web/feed.rss"
  ELSE IF path = "/json" THEN "assets/web/feed.json"
  ELSE "assets/web/index.html"

\* common.ReadAndServeFile: the bytes of the file as they are on disk
ReadAndServeFile(file) ==
  IF file = "assets/web/feed.rss" THEN rssFile
  ELSE IF file = "assets/web/feed.json" THEN jsonFile
  ELSE << file >>

\* lines 173-194: the response to a request for path that arrives now
rootHandler(path) == ReadAndServeFile(FeedFile(path))

\* what a handler returns, 0 for nil, and what it wrote to the response
Nil(out) == [err |-> 0, out |-> out]

HTTPError(code) == [err |-> code, out |-> << >>]

\* common.ReadAndServeFile as a handler's last call: the file is copied to
\* the response, or it cannot be read
ServeFile(file) ==
  { Nil(<< [body |-> ReadAndServeFile(file)] >>), HTTPError(404), HTTPError(500) }

\* the outcomes of one call of a handler for a request.  The handlers of the
\* auth and admin packages return nil or an error of any status.
Outcomes(h, q) ==
  IF h = "rootHandler"
  THEN (IF q.path \in { "/rss", "/json", "/" } THEN ServeFile(FeedFile(q.path))
        ELSE { HTTPError(404) })
  ELSE IF h = "adminHandler" THEN ServeFile("assets/web/admin.html")
  ELSE IF h = "loginHandler"
  THEN { Nil(<< [redirect |-> "/admin"] >>) }
         \cup (IF q.method = "GET" THEN ServeFile("assets/web/login.html")
               ELSE { HTTPError(500), HTTPError(400), HTTPError(401) })
  ELSE IF h = "serveSetup"
  THEN (IF q.method = "GET" THEN ServeFile("assets/web/setup.html")
        ELSE { Nil(<< [body |-> "Done"] >>) })
  ELSE { Nil(<< >>) } \cup { HTTPError(code) : code \in ErrorCodes }

\* line 31: a request enters Handle
NewRequest(path, method) ==
  [path |-> path, method |-> method, i |-> 1, pc |-> "run",
   ran |-> << >>, resp |-> << >>, logged |-> << >>]

\* a request for a route arrives
Arrive(path, method) ==
  /\ Running
  /\ Len(reqs) < MaxRequests
  /\ reqs' = Append(reqs, NewRequest(path, method))
  /\ UNCHANGED << fsVars, outVars, proc, setup, watched, events, loop, rb, lastNow,
                  ioFaults, histVars, errVars >>

\* lines 34-40 without the return: the loop goes on to the next handler
HandleGoesOn == "run"

\* line 39: Handle returns after the first error

HandleReturns == "done"

\* lines 32-41, one iteration of the loop of Handle: the next handler is
\* called; its error is logged and its status text is written, and Handle
\* returns; or the loop goes on, and ends after the last handler
Served(q, h, o) ==
  [q EXCEPT !.ran = Append(@, [h |-> h, err |-> o.err]),
            !.i = @ + 1,
            !.resp = IF o.err # 0 THEN @ \o o.out \o << [text |-> StatusText(o.err)] >>
                     ELSE @ \o o.out,
            !.logged = IF o.err # 0 THEN Append(@, o.err) ELSE @,
            !.pc = IF o.err # 0 THEN HandleReturns
                   ELSE IF q.i = Len(Chain(q.path)) THEN "done" ELSE "run"]

\* lines 212-226: serveSetup writes the configuration file on a POST
WritesConfig(h, q) == h = "serveSetup" /\ q.method = "POST"

HandleStep(r) ==
  /\ Running
  /\ r \in DOMAIN reqs
  /\ reqs[r].pc = "run"
  /\ reqs[r].i <= Len(Chain(reqs[r].path))
  /\ LET q == reqs[r]
         h == Chain(q.path)[q.i]
     IN  /\ \E o \in Outcomes(h, q) : reqs' = [reqs EXCEPT ![r] = Served(q, h, o)]
         /\ IF WritesConfig(h, q)
            THEN /\ configFile' = CfgSetup
                 /\ events' = Notify("config", << Event("Write", ConfigName) >>)
            ELSE UNCHANGED << configFile, events >>
  /\ UNCHANGED << podcasts, outVars, proc, setup, watched, loop, rb, lastNow,
                  ioFaults, histVars, errVars >>

(***************************************************************************)
(* Specifications                                                          *)
(***************************************************************************)
\* the invocations of GenerateRss a behaviour may hold: one per write event
Frames == 1..MaxMutations

Next ==
  \/ \E n \in FileNames : FsCreate(n)
  \/ \E n \in FileNames, c \in Contents : FsWrite(n, c)
  \/ \E n \in FileNames : FsRemove(n)
  \/ \E n \in FileNames : FsMoveIn(n)
  \/ \E n \in FileNames : FsMoveOut(n)
  \/ \E n \in FileNames : FsChmod(n)
  \/ \E c \in ConfigWrites : ConfigWrite(c)
  \/ ConfigRemove
  \/ NewWatcher
  \/ GoLoop
  \/ AddPodcasts
  \/ AddConfig
  \/ WatchEvent
  \/ WatcherError
  \/ WatchError
  \/ \E k \in Frames : ReadConfig(k)
  \/ \E k \in Frames : ListDir(k)
  \/ \E k \in Frames : Extract(k)
  \/ \E k \in Frames : Encode(k)
  \/ \E k \in Frames : WriteRss(k)
  \/ \E k \in Frames : OpenJson(k)
  \/ \E k \in Frames : WriteJson(k)

Spec == Init /\ [][Next]_vars

\* the router alone: requests arrive and are handled, each in its own goroutine
NextRouter ==
  \/ \E path \in Paths : \E method \in Methods(path) : Arrive(path, method)
  \/ \E r \in 1..MaxRequests : HandleStep(r)

SpecRouter == Init /\ [][NextRouter]_vars

(***************************************************************************)
(* Properties                                                              *)
(***************************************************************************)
InitRss == ToRss(FeedOf(CfgShow, InitPodcasts, 0))

InitJson == ToJSON(FeedOf(CfgShow, InitPodcasts, 0))

\* the invocations of GenerateRss that have neither returned nor failed
Active == { k \in DOMAIN rb : rb[k].pc \notin { "done", "failed" } }

\* the goroutine waits for an event and no rebuild is in progress
Idle == Running /\ loop = "select" /\ Active = {}

\* the output files hold the two encodings of the feed of the configuration
\* and the directory now on disk, created at time now
InSync(now) ==
  /\ rssFile = ToRss(FeedOf(configFile, podcasts, now))
  /\ jsonFile = ToJSON(FeedOf(configFile, podcasts, now))

\* the documents that were handed to WriteFile whole, per output file
WholeDocs(file) ==
  IF file = "assets/web/feed.rss"
  THEN { InitRss } \cup { rb[k].rss : k \in { j \in DOMAIN rb : rb[j].rss # << >> } }
  ELSE { InitJson } \cup { rb[k].json : k \in { j \in DOMAIN rb : rb[j].json # << >> } }

\* C1: at whatever point of a rebuild a request for /rss or /json arrives,
\* it is not answered with a partly written file: the response is a whole
\* document, the one an earlier rebuild published or the one the current
\* rebuild publishes
C1_ReaderSeesWholeFile ==
  \A path \in { "/rss", "/json" } :
    Running => rootHandler(path) \in WholeDocs(FeedFile(path))

\* C2: a rebuild that failed left feed.rss and feed.json as they were when it
\* started
C2_FailedRebuildLeavesOutputs ==
  \A k \in DOMAIN rb :
    rb[k].pc = "failed" => rssFile = rb[k].rss0 /\ jsonFile = rb[k].json0

\* a rebuild failed after an earlier rebuild had published a new feed
C2_Witness ==
  \E k \in DOMAIN rb :
    /\ rb[k].pc = "failed"
    /\ rb[k].site \in { "shownotes", "date", "index", "ConfigMalformed", "EncodingFailed" }
    /\ k > 1
    /\ rb[k].rss0 # InitRss
    /\ rb[k].rss0 = rb[k - 1].rss

\* C3: after a rebuild failed the process is running and the goroutine is
\* back at its select
C3_WatcherSurvivesFailure ==
  \A k \in DOMAIN rb : rb[k].pc = "failed" => proc = "running" /\ loop = "select"

\* every mutation was made to a watched path, every event it queued was
\* received, and the watcher is idle
Settled ==
  /\ Idle
  /\ setup = "blocked"
  /\ events = << >>
  /\ nmut > 0
  /\ ~ missed

\* C4: once the mutations of the watched paths have been handled and the
\* watcher is idle, the output files list the episodes of the directory and
\* the values of the configuration then on disk
C4_SettledFeedInSync ==
  (Settled /\ configFile.kind = "object") => \E now \in 0..MaxClock : InSync(now)

\* the rebuild that started last has returned and both its writes succeeded
LastPublished ==
  /\ rb # << >>
  /\ rb[Len(rb)].pc = "done"
  /\ rb[Len(rb)].rssErr = "nil"
  /\ rb[Len(rb)].jsonErr = "nil"

\* C5: when every queued event has been received and the last rebuild has
\* returned, having written both files, and every mutation made since that
\* rebuild started queued a write event, the output files are those of a
\* rebuild of the configuration and the directory now on disk
C5_NoMissedFinalState ==
  (Idle /\ events = << >> /\ LastPublished /\ quietMut <= rb[Len(rb)].startMut)
    => InSync(rb[Len(rb)].now)

\* the write events received for one file of podcasts/
WritesOf(name) ==
  { i \in DOMAIN consumed : "Write" \in consumed[i].op /\ consumed[i].path = name }

\* two writes of the audio file of the published episode were received, the
\* second while the rebuild for the first was running, and both rebuilds
\* have published
C5_Witness ==
  /\ Idle /\ events = << >> /\ LastPublished
  /\ quietMut <= rb[Len(rb)].startMut
  /\ Cardinality(WritesOf(NPilot)) = 2
  /\ Len(rb) = 2
  /\ rb[1].endMut > rb[1].startMut
  /\ rb[2].feed.Items # rb[1].feed.Items

\* the positions in consumed of the write events
WriteEvents == { i \in DOMAIN consumed : "Write" \in consumed[i].op }

\* C6: the rebuilds started so far are, one for one and in order, those of
\* the write events received so far: the k-th rebuild was started by the
\* k-th write event
C6_OneRebuildPerWriteEvent ==
  /\ Len(rb) = Cardinality(WriteEvents)
  /\ \A k \in DOMAIN rb :
       /\ rb[k].trigger \in WriteEvents
       /\ Cardinality({ i \in WriteEvents : i <= rb[k].trigger }) = k

\* two rebuilds were started, the second by the fourth event received
C6_Witness ==
  /\ Len(rb) = 2
  /\ Len(consumed) = 4
  /\ rb[2].trigger = 4
  /\ rb[1].trigger = 2

\* C7: at most one rebuild is in progress, and while one is the goroutine is
\* inside the call and receives nothing
C7_RebuildsNeverOverlap ==
  /\ Cardinality(Active) <= 1
  /\ Active # {} => loop = "call"

\* a rebuild is writing the output files while the next write event waits
\* in the queue
C7_Witness ==
  /\ Running
  /\ Active # {}
  /\ \E k \in Active : rb[k].pc \in { "WriteRss", "OpenJson", "WriteJson" }
  /\ events # << >>
  /\ "Write" \in Head(events).op

\* two invocations that both returned, with no mutation between the start
\* of the first and the return of the second, and no failed write
Repeated(i, j) ==
  /\ i < j
  /\ rb[i].pc = "done" /\ rb[j].pc = "done"
  /\ rb[i].startMut = rb[j].endMut
  /\ rb[i].rssErr = "nil" /\ rb[i].jsonErr = "nil"
  /\ rb[j].rssErr = "nil" /\ rb[j].jsonErr = "nil"

\* C8 as stated: two invocations with no change in between write the same
\* bytes to feed.rss and the same bytes to feed.json
C8_RebuildIdempotent ==
  \A i, j \in DOMAIN rb :
    Repeated(i, j) => rb[i].rss = rb[j].rss /\ rb[i].json = rb[j].json

\* a document with the creation time of its feed-level element blanked
RssSansCreated(doc) == [doc EXCEPT ![1].pubDate.t = 0]

JsonSansCreated(doc) == [doc EXCEPT ![1].Created.t = 0]

\* C8 amended: two invocations with no change in between write documents
\* that differ at most in the feed's creation time, and the same bytes when
\* time.Now() returned the same value to both
C8_IdempotentButForCreated ==
  \A i, j \in DOMAIN rb :
    Repeated(i, j) =>
      /\ RssSansCreated(rb[i].rss) = RssSansCreated(rb[j].rss)
      /\ JsonSansCreated(rb[i].json) = JsonSansCreated(rb[j].json)
      /\ rb[i].now = rb[j].now => rb[i].rss = rb[j].rss /\ rb[i].json = rb[j].json

\* two invocations with no change in between, at different times, each
\* publishing an episode
C8_Witness ==
  \E i, j \in DOMAIN rb :
    /\ Repeated(i, j)
    /\ rb[i].now # rb[j].now
    /\ rb[i].feed.Items # << >>
    /\ rssFile = rb[j].rss /\ jsonFile = rb[j].json

(***************************************************************************)
(* The filename contract: <date>_<title>.mp3, <date> a day of the calendar *)
(***************************************************************************)
MatchesContract(name) ==
  /\ Len(name) > 10 + 1 + Len(Mp3)
  /\ ~ ParseDate(SubSeq(name, 1, 10)).err
  /\ name[11] = "_"
  /\ HasSuffix(name, Mp3)

ContractDate(name) == ParseDate(SubSeq(name, 1, 10)).date

ContractTitle(name) == SubSeq(name, 12, Len(name) - Len(Mp3))

\* the invocations whose loop over the listing has finished
Extracted == { k \in DOMAIN rb : rb[k].rss # << >> }

\* the items an invocation made for the entry of a name
ItemsOf(k, name) ==
  { n \in DOMAIN rb[k].feed.Items :
      rb[k].feed.Items[n].Link.Href = rb[k].config.PodcastUrl \o << "/download/" >> \o name }

\* C9: an entry named <date>_<title>.mp3 yields exactly one item, with that
\* date, that title and the link <PodcastUrl>/download/<name>; an entry
\* whose name holds no ".mp3" yields none
C9_ExtractorFollowsContract ==
  \A k \in Extracted : \A e \in DOMAIN rb[k].files :
    LET name == rb[k].files[e].name
    IN  /\ MatchesContract(name) =>
             /\ Cardinality(ItemsOf(k, name)) = 1
             /\ \A n \in ItemsOf(k, name) :
                  /\ rb[k].feed.Items[n].Title = ContractTitle(name)
                  /\ rb[k].feed.Items[n].Created = ContractDate(name)
        /\ ~ Contains(name, Mp3) => ItemsOf(k, name) = {}

\* C10: every item of a feed comes from an entry of the listing whose name
\* ends in ".mp3" and has the form <date>_<title>.mp3
C10_ItemsOnlyFromContractFiles ==
  \A k \in DOMAIN rb : \A n \in DOMAIN rb[k].feed.Items :
    \E e \in DOMAIN rb[k].files :
      /\ n \in ItemsOf(k, rb[k].files[e].name)
      /\ MatchesContract(rb[k].files[e].name)

(***************************************************************************)
(* The configuration loader                                                *)
(***************************************************************************)
\* the bytes decode into the expected shape: an object that names each of
\* the six fields
HasExpectedShape(d) ==
  /\ d.kind = "object"
  /\ \A f \in ConfigFields : \E key \in DOMAIN d.obj : FoldKey(key) = f

\* the invocations that are past the configuration loader
Loaded == { k \in DOMAIN rb : rb[k].pc # "ReadConfig" }

\* C11: an invocation whose configuration file could not be read failed with
\* ConfigUnreadable, one whose bytes do not decode into the six fields failed
\* with ConfigMalformed, and in both cases the output files are as the
\* invocation found them: no feed of missing or defaulted values is written
C11_NoDefaultedConfig ==
  \A k \in Loaded :
    /\ rb[k].d.kind = "absent" =>
          rb[k].pc = "failed" /\ rb[k].site = "ConfigUnreadable"
    /\ (rb[k].d.kind # "absent" /\ ~ HasExpectedShape(rb[k].d)) =>
          rb[k].pc = "failed" /\ rb[k].site = "ConfigMalformed"
    /\ ~ HasExpectedShape(rb[k].d) =>
          rssFile = rb[k].rss0 /\ jsonFile = rb[k].json0

(***************************************************************************)
(* The events that start no rebuild                                        *)
(***************************************************************************)
\* C12: when the goroutine receives an event whose operation does not
\* include Write, no rebuild starts, the goroutine stays at its select and
\* the output files are unchanged
C12_OnlyWriteEventsTrigger ==
  [][ (consumed' # consumed /\ "Write" \notin Head(events).op)
        => (rb' = rb /\ loop' = loop /\ UNCHANGED outVars) ]_vars

\* a create-only event and an event of another operation without Write
\* were received, and no rebuild was ever started
C12_Witness ==
  /\ Idle
  /\ events = << >>
  /\ Len(consumed) = 2
  /\ consumed[1].op = { "Create" }
  /\ consumed[2].op \in { { "Remove" }, { "Rename" }, { "Chmod" } }
  /\ rb = << >>
  /\ rssFile = InitRss /\ jsonFile = InitJson

(***************************************************************************)
(* The set-up of watch()                                                   *)
(***************************************************************************)
\* C13: once NewWatcher or one of the two Add calls has returned an error
\* the process has exited, whatever the goroutine was doing, and it stays
\* exited: watch() never blocks on done with the watcher idle
C13_SetupFailureIsFatal ==
  /\ [](setup = "failed" => (proc = "exited" /\ ~ Idle))
  /\ [][setup = "failed" => (setup' = "failed" /\ proc' = "exited")]_vars

\* the second Add failed while the goroutine, started before the Add calls,
\* was inside a rebuild for an event of podcasts/
C13_Witness ==
  /\ setup = "failed"
  /\ proc = "exited"
  /\ watched = { "podcasts" }
  /\ loop = "call"
  /\ \E k \in Active : rb[k].pc \in { "WriteRss", "OpenJson", "WriteJson" }

(***************************************************************************)
(* The order of the episodes                                               *)
(***************************************************************************)
\* C14: the items of a feed stand in the order of the entries of the
\* listing they were made from, one item per entry at most, and both
\* documents hold the items in that order
C14_ItemsInListingOrder ==
  \A k \in Extracted :
    LET files == rb[k].files
        items == rb[k].feed.Items
    IN  /\ \A e1, e2 \in DOMAIN files :
             e1 < e2 => \A n1 \in ItemsOf(k, files[e1].name) :
                          \A n2 \in ItemsOf(k, files[e2].name) : n1 < n2
        /\ \A e \in DOMAIN files : Cardinality(ItemsOf(k, files[e].name)) <= 1
        /\ \A n \in DOMAIN items : \E e \in DOMAIN files : n \in ItemsOf(k, files[e].name)
        /\ Len(rb[k].rss) = Len(items) + 2
        /\ Len(rb[k].json) = Len(items) + 2
        /\ \A n \in DOMAIN items :
             /\ rb[k].rss[n + 1].tag = "item"
             /\ rb[k].rss[n + 1].link = items[n].Link.Href
             /\ rb[k].json[n + 1].tag = "item"
             /\ rb[k].json[n + 1].Link.Href = items[n].Link.Href

\* a rebuild listed two audio files and published an item for each
C14_Witness ==
  \E k \in DOMAIN rb :
    /\ rb[k].pc = "done"
    /\ Len(rb[k].feed.Items) = 2
    /\ \E e1, e2 \in DOMAIN rb[k].files :
         /\ e1 < e2
         /\ rb[k].files[e1].name = NMyShow
         /\ rb[k].files[e2].name = NPilot
    /\ rssFile = rb[k].rss /\ jsonFile = rb[k].json

(***************************************************************************)
(* Handle                                                                  *)
(***************************************************************************)
Errored(q) == { n \in DOMAIN q.ran : q.ran[n].err # 0 }

\* C15: the handlers a request has run are the first handlers of its route,
\* in the order of the route and each once; a handler that returned an error
\* is the last one run: the error is logged, its status text is the last
\* thing written to the response, and Handle has returned; a request whose
\* handlers returned no error runs every handler of the route
C15_HandleSerialStopsAtError ==
  \A r \in DOMAIN reqs :
    LET q == reqs[r]
        chain == Chain(q.path)
    IN  /\ Len(q.ran) <= Len(chain)
        /\ \A n \in DOMAIN q.ran : q.ran[n].h = chain[n]
        /\ \A n \in Errored(q) :
             /\ n = Len(q.ran)
             /\ q.pc = "done"
             /\ q.logged = << q.ran[n].err >>
             /\ q.resp # << >>
             /\ q.resp[Len(q.resp)] = [text |-> StatusText(q.ran[n].err)]
        /\ Errored(q) = {} =>
             /\ q.logged = << >>
             /\ q.pc = "done" <=> Len(q.ran) = Len(chain)

\* one request stopped at the error of the first of its two handlers, and
\* another ran both handlers of the same route
C15_Witness ==
  \E r1, r2 \in DOMAIN reqs :
    /\ reqs[r1].path = "/admin/publish" /\ reqs[r2].path = "/admin/publish"
    /\ reqs[r1].pc = "done"
    /\ reqs[r1].ran = << [h |-> "RequireAuthorization", err |-> 401] >>
    /\ reqs[r2].pc = "done"
    /\ reqs[r2].ran = << [h |-> "RequireAuthorization", err |-> 0],
                         [h |-> "CreateEpisode", err |-> 0] >>

(***************************************************************************)
(* The authenticated routes                                                *)
(***************************************************************************)
AuthenticatedPaths == { "/admin", "/admin/publish", "/admin/delete", "/admin/css" }

\* the handler an authenticated route protects
Protected(path) ==
  IF path = "/admin" THEN "adminHandler"
  ELSE IF path = "/admin/publish" THEN "CreateEpisode"
  ELSE IF path = "/admin/delete" THEN "RemoveEpisode"
  ELSE "CustomCss"

\* the calls of RequireAuthorization made for a request
Authorizations(q) == { m \in DOMAIN q.ran : q.ran[m].h = "RequireAuthorization" }

\* C16: on an authenticated route the protected handler has run for a
\* request only if RequireAuthorization ran before it for that request and
\* returned nil, and it has not run for a request whose authorization failed
C16_ProtectedAfterAuthorization ==
  \A r \in DOMAIN reqs :
    LET q == reqs[r]
    IN  q.path \in AuthenticatedPaths =>
          /\ \A n \in DOMAIN q.ran :
               q.ran[n].h = Protected(q.path) =>
                 \E m \in Authorizations(q) : m < n /\ q.ran[m].err = 0
          /\ (\E m \in Authorizations(q) : q.ran[m].err # 0) =>
               \A n \in DOMAIN q.ran : q.ran[n].h # Protected(q.path)

\* of two requests to delete an episode, the authorized one reached
\* RemoveEpisode and the other was answered Unauthorized and did not
C16_Witness ==
  \E r1, r2 \in DOMAIN reqs :
    /\ reqs[r1].path = "/admin/delete" /\ reqs[r2].path = "/admin/delete"
    /\ reqs[r1].pc = "done" /\ reqs[r2].pc = "done"
    /\ \E n \in DOMAIN reqs[r1].ran : reqs[r1].ran[n].h = "RemoveEpisode"
    /\ \E m \in Authorizations(reqs[r1]) : reqs[r1].ran[m].err = 0
    /\ \E m \in Authorizations(reqs[r2]) : reqs[r2].ran[m].err = 401
    /\ reqs[r2].resp = << [text |-> "Unauthorized"] >>

(***************************************************************************)
(* A rebuild and the watched paths                                         *)
(***************************************************************************)
\* a rebuild returns in this step
Returns == \E k \in DOMAIN rb : rb[k].pc # "done" /\ rb'[k].pc = "done"

\* C17: a step of a rebuild leaves the watched paths and the event queue
\* as they are, so that there are never more rebuilds than mutations made
\* from outside; and the return of a rebuild puts the goroutine back at
\* its select with no rebuild in progress, where it stays idle until it
\* receives the next event
C17_RebuildTriggersNothing ==
  /\ [][ (Len(rb') = Len(rb) /\ rb' # rb)
           => UNCHANGED << podcasts, configFile, watched, events >> ]_vars
  /\ [](Len(rb) <= nmut)
  /\ [][ Returns => (Running' /\ loop' = "select" /\ Active' = {}) ]_vars
  /\ []((Running /\ loop = "select") => Active = {})

\* after two writes from outside, two rebuilds have run and written both
\* files, the queue is empty and the watcher is idle
C17_Witness ==
  /\ Idle
  /\ setup = "blocked"
  /\ events = << >>
  /\ nmut = 2
  /\ Len(rb) = 2
  /\ \A k \in DOMAIN rb : rb[k].pc = "done" /\ rb[k].rssErr = "nil" /\ rb[k].jsonErr = "nil"
  /\ rssFile = rb[2].rss /\ jsonFile = rb[2].json
  /\ Len(consumed) = 2

(***************************************************************************)
(* The two output files as a pair                                          *)
(***************************************************************************)
\* the feed models built so far: that of the files the process started
\* with, and that of every rebuild
FeedModels == { FeedOf(CfgShow, InitPodcasts, 0) } \cup { rb[k].feed : k \in DOMAIN rb }

\* C18: when the watcher is idle after a rebuild that returned, feed.rss
\* and feed.json are the two encodings of one feed model, whether or not a
\* write of the rebuild failed
C18_OutputsEncodeOneFeed ==
  (Idle /\ rb # << >> /\ rb[Len(rb)].pc = "done")
    => \E feed \in FeedModels : rssFile = ToRss(feed) /\ jsonFile = ToJSON(feed)

(***************************************************************************)
(* The watcher's error channel                                             *)
(***************************************************************************)
\* C19: when the goroutine receives an error of the watcher it logs one
\* line and nothing else: no rebuild starts, the output files and the
\* event queue are as they were, the process runs on and the goroutine is
\* at its select, ready for the next event
C19_WatcherErrorOnlyLogged ==
  [][ errLog' # errLog
        => /\ errLog' = errLog + 1
           /\ rb' = rb
           /\ UNCHANGED << outVars, events, fsVars >>
           /\ Running'
           /\ loop' = "select" ]_vars

\* an error was logged before the write event that came after it was
\* received, and the rebuild for that event has published
C19_Witness ==
  /\ errLog = 1
  /\ Idle
  /\ Len(rb) = 1
  /\ rb[1].pc = "done" /\ rb[1].rssErr = "nil" /\ rb[1].jsonErr = "nil"
  /\ rb[1].startLog = 1
  /\ rssFile = rb[1].rss /\ rssFile # InitRss

====
